---------------------------- MODULE Spec2Model ----------------------------
(***************************************************************************)
(* State-machine model of the XISP libcamera pipeline handler              *)
(* (src/source/libcamera/src/libcamera/pipeline/xisp/xisp.cpp):            *)
(* topology discovery (match), stream configuration validation (validate), *)
(* format propagation (configure) and the streaming runtime (start,        *)
(* stopDevice, queueRequestDevice, bufferReady).                           *)
(***************************************************************************)
EXTENDS Integers, Sequences, FiniteSets, TLC

(***************************************************************************)
(* Program constants and model bounds                                      *)
(***************************************************************************)

\* for (unsigned int i = 0; i < 4; i++): candidate pipeline instances
NumInstances == 4

\* streams_.resize(1): the camera's fixed Stream collection
NumStreams == 1

\* cfg.bufferCount = 4 in generateConfiguration
DefaultBufferCount == 4

\* bound: longest proposal handed to validate
MaxEntries == 2

\* bound: number of Requests the application creates
MaxReq == 2

\* bound: distinct hardware timestamps carried by buffers (1..MaxTs)
MaxTs == 2

Instances == 0 .. (NumInstances - 1)

\* Role markers the entity scan looks for in entity names
Roles == {"sensor", "vcm", "csi2rx", "xisp", "resizer", "capture"}

\* Roles whose handle match() opens
OpenRoles == {"csi2rx", "xisp", "resizer", "capture"}

\* Sensor-family substrings tested inside an "imx" entity name
SensorFamilies == {"imx219", "imx708", "imx477", "imx500"}

Size(w, h) == [width |-> w, height |-> h]

\* Size default constructor: 0x0
NullSize == Size(0, 0)

\* Value of an unsigned int member that was never written
Indeterminate == "indeterminate"

\* Size range advertised for every format of formatsMap_
kMinXISPSize == Size(64, 64)
kMaxXISPSize == Size(4096, 4096)

SRGGB10 == "MEDIA_BUS_FMT_SRGGB10_1X10"
RBG888_1X24 == "MEDIA_BUS_FMT_RBG888_1X24"

VARIABLES
    hw,                     \* the system the enumerator showed to match()
    queries,                \* instance indices handed to acquireMediaDevice, in order
    matchResult,            \* "none" before match(); then "true", "false" or "crash"
    mediaDev_,              \* {} (null) or {i}: the acquired device group
    sensor_, vcm_, csi2rx_, xisp_,   \* handler subdevice handles: "null", "bound", "open"
    pipes_,                 \* sequence of Pipe {resizer, capture}
    sensorBestSize_, sensorBestFormatCode_,
    connected,              \* bufferReady connected to the capture device's signal
    registered,             \* registerCamera() was called
    camSensor_,             \* XISPCameraData::camSensor_: "null" or "ok"
    hasConfig,              \* the application holds a CameraConfiguration
    config_,                \* CameraConfiguration::config_: sequence of entries
    sensorFormat_,          \* XISPCameraConfiguration::sensorFormat_
    status,                 \* what the last validate() returned, "none" before
    camState,               \* framework camera state: Available, Configured, Running
    enabledStreams_,        \* XISPCameraData::enabledStreams_: sequence of Stream indices
    streamBufferCount,      \* Stream::configuration().bufferCount, per Stream
    devFmt,                 \* format each device pad currently holds
    calls,                  \* format-set calls issued by the last configure, in order
    capDev,                 \* capture device of each Pipe: imported buffers, streaming
    queued,                 \* buffers a capture device accepted and has not reported
    reqs,                   \* the application's Requests
    op                      \* the last operation and what it returned; for bufferReady
                            \* also its Request and whether the buffer's timestamp is
                            \* another than that of the Request's first notification;
                            \* for configure also the device returns and whether it
                            \* directly follows a configure that returned 0; for
                            \* start and stopDevice also the capture-device calls
                            \* made; for stopDevice also the operation and the
                            \* camera state before it and the calls that failed;
                            \* for queueRequestDevice also its Request, the pair
                            \* at which queueBuffer failed (0: none) and the
                            \* capture-device calls made; for exportFrameBuffers
                            \* its Stream and capture-device call

discVars == <<hw, queries, matchResult, mediaDev_, sensor_, vcm_, csi2rx_, xisp_,
              pipes_, sensorBestSize_, sensorBestFormatCode_, connected,
              registered, camSensor_>>

cfgVars == <<hasConfig, config_, sensorFormat_, status>>

devVars == <<camState, enabledStreams_, streamBufferCount, devFmt, calls>>

runVars == <<capDev, queued, reqs>>

vars == <<discVars, cfgVars, devVars, runVars, op>>

(***************************************************************************)
(* Topology discovery: PipelineHandlerXISP::match                          *)
(***************************************************************************)

\* A system as the enumerator presents it.
\*   present    : pipeline instances for which a device group exists
\*   ents       : role markers found among the entity names of the group
\*   families   : sensor-family substrings contained in the "imx" entity name
\*   sensorTag  : the sensor entity carries MEDIA_ENT_F_CAM_SENSOR
\*   openFail   : roles whose open() returns an error
\*   sensorInit : CameraSensorFactoryBase::create yields a sensor
\* The group was matched on its capture entity name, so "capture" is in ents.
Systems ==
    [present : SUBSET Instances,
     ents : {e \in SUBSET Roles : "capture" \in e},
     families : {f \in SUBSET SensorFamilies : Cardinality(f) <= 1},
     sensorTag : BOOLEAN,
     openFail : {f \in SUBSET OpenRoles : Cardinality(f) <= 1},
     sensorInit : BOOLEAN]

NoSystem ==
    [present |-> {}, ents |-> {}, families |-> {}, sensorTag |-> FALSE,
     openFail |-> {}, sensorInit |-> FALSE]

\* Faulty variant of Probe: the loop does not stop at the first acquired instance
RECURSIVE ProbeNoBreak(_, _)
ProbeNoBreak(present, i) ==
    IF i >= NumInstances THEN [dev |-> {}, queries |-> <<>>]
    ELSE LET r == ProbeNoBreak(present, i + 1)
         IN [dev |-> IF r.dev # {} THEN r.dev
                     ELSE IF i \in present THEN {i} ELSE {},
             queries |-> <<i>> \o r.queries]

\* The instance loop from index i on: acquireMediaDevice for
\* "vcap_mipi_<i>_v_proc output 0", break at the first group found.
RECURSIVE Probe(_, _)
Probe(present, i) ==
    IF i >= NumInstances THEN [dev |-> {}, queries |-> <<>>]
    ELSE IF i \in present THEN [dev |-> {i}, queries |-> <<i>>]
    ELSE LET r == Probe(present, i + 1)
         IN [dev |-> r.dev, queries |-> <<i>> \o r.queries]

\* Faulty variant of SensorProfile: the sizes of imx708 and imx477 are exchanged
SensorProfileExchanged(families, oldSize, oldCode) ==
    IF "imx500" \in families THEN [size |-> Size(2028, 1520), code |-> SRGGB10]
    ELSE IF "imx477" \in families THEN [size |-> Size(1536, 864), code |-> SRGGB10]
    ELSE IF "imx708" \in families THEN [size |-> Size(1332, 990), code |-> SRGGB10]
    ELSE IF "imx219" \in families THEN [size |-> Size(1920, 1080), code |-> SRGGB10]
    ELSE [size |-> oldSize, code |-> oldCode]

\* The chain of if-statements on the sensor entity name; a later family
\* overwrites an earlier one, no family leaves the members as they were.
SensorProfile(families, oldSize, oldCode) ==
    IF "imx500" \in families THEN [size |-> Size(2028, 1520), code |-> SRGGB10]
    ELSE IF "imx477" \in families THEN [size |-> Size(1332, 990), code |-> SRGGB10]
    ELSE IF "imx708" \in families THEN [size |-> Size(1536, 864), code |-> SRGGB10]
    ELSE IF "imx219" \in families THEN [size |-> Size(1920, 1080), code |-> SRGGB10]
    ELSE [size |-> oldSize, code |-> oldCode]

\* State of a handle created by fromEntityName when its marker is present
Bound(role, e) == IF role \in e.ents THEN "bound" ELSE "null"

\* What dereferencing the null sensor_entity can do: the process dies, or the
\* read yields a value that is not MEDIA_ENT_F_CAM_SENSOR and match returns
\* false.
NullDerefOutcomes == {"crash", "false"}

\* Handler members when no device group was acquired: nothing was scanned
Unbound(p) ==
    [queries |-> p.queries, mediaDev_ |-> p.dev,
     sensor_ |-> "null", vcm_ |-> "null", csi2rx_ |-> "null", xisp_ |-> "null",
     pipes_ |-> <<>>, size |-> NullSize, code |-> Indeterminate,
     connected |-> FALSE, registered |-> FALSE, camSensor_ |-> "null",
     result |-> "false"]

\* Handler members after the entity scan, nothing opened yet
Scanned(e, p) ==
    LET prof == IF "sensor" \in e.ents
                THEN SensorProfile(e.families, NullSize, Indeterminate)
                ELSE [size |-> NullSize, code |-> Indeterminate]
    IN [Unbound(p) EXCEPT
            !.sensor_ = Bound("sensor", e), !.vcm_ = Bound("vcm", e),
            !.csi2rx_ = Bound("csi2rx", e), !.xisp_ = Bound("xisp", e),
            !.size = prof.size, !.code = prof.code]

\* The whole of match(): the handler's members and the returned value.
MatchOutcome(e, ub) ==
    LET p == Probe(e.present, 0)
        s0 == Scanned(e, p)
        s1 == [s0 EXCEPT !.csi2rx_ = "open"]
        s2 == [s1 EXCEPT !.xisp_ = "open"]
        s3 == [s2 EXCEPT !.pipes_ = <<[resizer |-> "open", capture |-> "open"]>>,
                         !.connected = TRUE]
    IN IF p.dev = {} THEN
            \* if (!mediaDev_) return false;
            Unbound(p)
       ELSE IF "csi2rx" \notin e.ents THEN s0
       ELSE IF "csi2rx" \in e.openFail THEN s0
       ELSE IF "xisp" \notin e.ents THEN s1
       ELSE IF "xisp" \in e.openFail THEN s1
       ELSE IF "resizer" \notin e.ents THEN s2
       ELSE IF "resizer" \in e.openFail THEN s2
       ELSE IF "capture" \notin e.ents THEN s2
       ELSE IF "capture" \in e.openFail THEN
            \* ret = capture->open(); if (ret) return ret;  -- a negative
            \* errno converted to bool is true; the local capture and
            \* resizer handles are destroyed
            [s2 EXCEPT !.result = "true"]
       ELSE IF "sensor" \notin e.ents THEN
            \* sensor_entity is still NULL: sensor_entity->function()
            [s3 EXCEPT !.result = ub]
       ELSE IF ~e.sensorTag THEN s3
       ELSE IF ~e.sensorInit THEN
            \* data->init() returns -ENODEV, data is destroyed
            s3
       ELSE [s3 EXCEPT !.camSensor_ = "ok", !.registered = TRUE,
                       !.result = "true"]

match(e, ub) ==
    /\ LET o == MatchOutcome(e, ub)
       IN /\ hw' = e
          /\ queries' = o.queries
          /\ matchResult' = o.result
          /\ mediaDev_' = o.mediaDev_
          /\ sensor_' = o.sensor_
          /\ vcm_' = o.vcm_
          /\ csi2rx_' = o.csi2rx_
          /\ xisp_' = o.xisp_
          /\ pipes_' = o.pipes_
          /\ sensorBestSize_' = o.size
          /\ sensorBestFormatCode_' = o.code
          /\ connected' = o.connected
          /\ registered' = o.registered
          /\ camSensor_' = o.camSensor_
          /\ op' = [name |-> "match", ret |-> o.result]
    /\ UNCHANGED <<cfgVars, devVars, runVars>>

(***************************************************************************)
(* Stream configuration validation: XISPCameraConfiguration::validate      *)
(***************************************************************************)

\* Keys of formatsMap_
FormatsMapKeys == {"YUYV", "RGB888", "BGR888", "RBG888"}

\* Sizes and pixel formats the application proposes
ProposalSizes == {Size(640, 480), Size(1920, 1080)}
ProposalFormats == {"RBG888", "YUYV"}

\* A Stream pointer: {} is null, {i} is &streams_[i]
NoStream == {}

Entry(size, pixelFormat) ==
    [size |-> size, pixelFormat |-> pixelFormat, stride |-> 0, frameSize |-> 0,
     bufferCount |-> DefaultBufferCount, stream |-> NoStream]

ProposalEntries == {Entry(sz, pf) : sz \in ProposalSizes, pf \in ProposalFormats}

RECURSIVE SeqsUpTo(_, _)
SeqsUpTo(S, n) ==
    IF n = 0 THEN {<<>>}
    ELSE LET shorter == SeqsUpTo(S, n - 1)
         IN shorter \cup {Append(q, x) : q \in shorter, x \in S}

Proposals == SeqsUpTo(ProposalEntries, MaxEntries)

\* Sizes and pixel formats an application is free to write into an entry:
\* below, inside and above the advertised size range; a format of formatsMap_
\* and one that is not in it
AnySizes == {Size(32, 32), Size(640, 480), Size(8192, 8192)}
AnyFormats == {"RBG888", "UYVY"}

AnyProposals ==
    SeqsUpTo({Entry(sz, pf) : sz \in AnySizes, pf \in AnyFormats}, MaxEntries)

\* PixelFormatInfo of the packed formats in formatsMap_
BytesPerPixel(pf) == IF pf \in {"YUYV", "UYVY"} THEN 2 ELSE 3
BitsPerPixel(pf) == 8 * BytesPerPixel(pf)
NumPlanes(pf) == 1

AlignUp(n, a) == ((n + a - 1) \div a) * a

\* PixelFormatInfo::stride(width, plane 0, align)
Stride(pf, width, align) == AlignUp(width * BytesPerPixel(pf), align)

\* PixelFormatInfo::frameSize(size, align)
FrameSize(pf, size, align) == Stride(pf, size.width, align) * size.height

\* Size::operator< of libcamera's geometry
SizeLess(a, b) ==
    IF a.width < b.width /\ a.height < b.height THEN TRUE
    ELSE IF a.width >= b.width /\ a.height >= b.height THEN FALSE
    ELSE IF a.width * a.height < b.width * b.height THEN TRUE
    ELSE IF a.width * a.height > b.width * b.height THEN FALSE
    ELSE a.width < b.width

\* for (cfg : config_) if (cfg.size > maxSize) maxSize = cfg.size;
RECURSIVE MaxSize(_, _)
MaxSize(cfg, acc) ==
    IF cfg = <<>> THEN acc
    ELSE MaxSize(Tail(cfg), IF SizeLess(acc, Head(cfg).size)
                            THEN Head(cfg).size ELSE acc)

\* config_.resize(n) when it shrinks
Truncate(cfg, n) == SubSeq(cfg, 1, n)

\* The loop assigning streams, stride and frame size: entry i takes the i-th
\* element of availableStreams, and the layout follows the FIRST entry's format.
Assign(cfg) ==
    LET pf == cfg[1].pixelFormat
    IN [i \in 1 .. Len(cfg) |->
            [cfg[i] EXCEPT
                !.stream = {i - 1},
                !.stride = Stride(pf, cfg[i].size.width, 1),
                !.frameSize = FrameSize(pf, cfg[i].size, BitsPerPixel(pf))]]

\* Faulty variant of ValidateOutcome: the single-Pipe cap is missing, so the count is
\* only capped to the size of the proposal bound
ValidateOutcomeNoCap(cfg, oldFormat) ==
    IF cfg = <<>>
    THEN [status |-> "Invalid", config |-> cfg, sensorFormat |-> oldFormat]
    ELSE [status |-> "Valid", config |-> Assign(cfg),
          sensorFormat |-> [code |-> RBG888_1X24, size |-> MaxSize(cfg, NullSize)]]

\* Faulty variant of ValidateOutcome: the empty check comes after the sensor format
\* was computed and stored
ValidateOutcomeLateEmptyCheck(cfg, oldFormat) ==
    IF cfg = <<>>
    THEN [status |-> "Invalid", config |-> cfg,
          sensorFormat |-> [code |-> RBG888_1X24, size |-> NullSize]]
    ELSE LET c1 == IF Len(cfg) > NumStreams THEN Truncate(cfg, NumStreams) ELSE cfg
             c2 == IF Len(c1) > 1 THEN Truncate(c1, 1) ELSE c1
         IN [status |-> IF Len(cfg) > Len(c2) THEN "Adjusted" ELSE "Valid",
             config |-> Assign(c2),
             sensorFormat |-> [code |-> RBG888_1X24,
                               size |-> MaxSize(c2, NullSize)]]

\* validate() on the entries cfg: the returned status, the entries and the
\* sensor format it leaves.
ValidateOutcome(cfg, oldFormat) ==
    IF cfg = <<>>
    THEN [status |-> "Invalid", config |-> cfg, sensorFormat |-> oldFormat]
    ELSE LET c1 == IF Len(cfg) > NumStreams THEN Truncate(cfg, NumStreams) ELSE cfg
             c2 == IF Len(c1) > 1 THEN Truncate(c1, 1) ELSE c1
         IN [status |-> IF Len(cfg) > Len(c2) THEN "Adjusted" ELSE "Valid",
             config |-> Assign(c2),
             sensorFormat |-> [code |-> RBG888_1X24,
                               size |-> MaxSize(c2, NullSize)]]

\* The application fills a configuration with the entries p (it can add and
\* edit entries, not remove them) and calls validate().
validate(p) ==
    /\ registered /\ hasConfig
    /\ Len(p) >= Len(config_)
    /\ LET o == ValidateOutcome(p, sensorFormat_)
       IN /\ config_' = o.config
          /\ sensorFormat_' = o.sensorFormat
          /\ status' = o.status
          /\ op' = [name |-> "validate", ret |-> o.status, proposed |-> Len(p),
                   first |-> IF p = <<>> THEN <<>> ELSE <<p[1]>>]
    /\ hasConfig' = hasConfig
    /\ UNCHANGED <<discVars, devVars, runVars>>

\* A default-constructed V4L2SubdeviceFormat member
UnsetFormat == [code |-> Indeterminate, size |-> NullSize]

\* generateConfiguration(camera, roles) for nroles supported roles: a fresh
\* configuration, empty for no roles, none (nullptr, the application keeps
\* what it had) for too many, else one 640x480 RBG888 entry that has been
\* validated.
generateConfiguration(nroles) ==
    /\ registered
    /\ IF nroles = 0
       THEN /\ hasConfig' = TRUE
            /\ config_' = <<>>
            /\ sensorFormat_' = UnsetFormat
            /\ status' = "none"
            /\ op' = [name |-> "generateConfiguration", ret |-> "empty"]
       ELSE IF nroles > NumStreams
       THEN /\ UNCHANGED cfgVars
            /\ op' = [name |-> "generateConfiguration", ret |-> "nullptr"]
       ELSE LET o == ValidateOutcome(<<Entry(Size(640, 480), "RBG888")>>,
                                     UnsetFormat)
            IN /\ hasConfig' = TRUE
               /\ config_' = o.config
               /\ sensorFormat_' = o.sensorFormat
               /\ status' = o.status
               /\ op' = [name |-> "generateConfiguration", ret |-> "config"]
    /\ UNCHANGED <<discVars, devVars, runVars>>

(***************************************************************************)
(* Format propagation: PipelineHandlerXISP::configure                      *)
(***************************************************************************)

\* Device pads that receive a format
Pads == {<<"sensor", 0>>, <<"csi2rx", 0>>, <<"csi2rx", 1>>, <<"xisp", 0>>,
         <<"xisp", 1>>, <<"resizer", 0>>, <<"resizer", 1>>, <<"capture", 0>>}

\* A pad no format-set call has reached
NoFormat == [code |-> "none"]

\* Error code the device behind the k-th call of a configure returns when it
\* fails: distinct per call, so that a returned code names its call
Errno(k) == 0 - k

Call(dev, pad, fmt) == [dev |-> dev, pad |-> pad, fmt |-> fmt]

\* A format-set call on the resizer or capture device of pipes_[pipe - 1]
PipeCall(pipe, dev, pad, fmt) ==
    [dev |-> dev, pad |-> pad, fmt |-> fmt, pipe |-> pipe]

\* pipe->capture->toV4L2PixelFormat(config.pixelFormat)
ToV4L2PixelFormat(pf) == [fourcc |-> pf]

\* Faulty variant of StreamCalls: the loop takes the Pipe after the first,
\* &pipes_[1]
RECURSIVE StreamCallsOtherPipe(_, _, _)
StreamCallsOtherPipe(cfg, xispFormat, vpssFormat) ==
    IF cfg = <<>> THEN <<>>
    ELSE LET c == Head(cfg)
             captureFormat == [fourcc |-> ToV4L2PixelFormat(c.pixelFormat),
                               size |-> c.size,
                               planesCount |-> NumPlanes(c.pixelFormat),
                               bpl |-> c.stride]
         IN << PipeCall(2, "resizer", 0, xispFormat),
               PipeCall(2, "resizer", 1, vpssFormat),
               PipeCall(2, "capture", 0, captureFormat) >>
            \o StreamCallsOtherPipe(Tail(cfg), xispFormat, vpssFormat)

\* The format-set calls of the loop over the entries, all on the first Pipe,
\* &pipes_[0]
RECURSIVE StreamCalls(_, _, _)
StreamCalls(cfg, xispFormat, vpssFormat) ==
    IF cfg = <<>> THEN <<>>
    ELSE LET c == Head(cfg)
             captureFormat == [fourcc |-> ToV4L2PixelFormat(c.pixelFormat),
                               size |-> c.size,
                               planesCount |-> NumPlanes(c.pixelFormat),
                               bpl |-> c.stride]
         IN << PipeCall(1, "resizer", 0, xispFormat),
               PipeCall(1, "resizer", 1, vpssFormat),
               PipeCall(1, "capture", 0, captureFormat) >>
            \o StreamCalls(Tail(cfg), xispFormat, vpssFormat)

\* Faulty variant of CallPlan: the ISP core output takes the size of the
\* computed sensor format instead of the sensor's native size
CallPlanRequestedSize(cfg, sensorFmt, bestSize, bestCode) ==
    LET csi2rxFormat == [code |-> bestCode, size |-> bestSize]
        xispFormat == [code |-> RBG888_1X24, size |-> sensorFmt.size]
        vpssFormat == [code |-> RBG888_1X24, size |-> sensorFmt.size]
    IN << Call("sensor", 0, csi2rxFormat),
          Call("csi2rx", 0, csi2rxFormat),
          Call("csi2rx", 1, csi2rxFormat),
          Call("xisp", 0, csi2rxFormat),
          Call("xisp", 1, xispFormat) >>
       \o StreamCalls(cfg, xispFormat, vpssFormat)

\* Every format-set call configure makes when none fails, in program order
CallPlan(cfg, sensorFmt, bestSize, bestCode) ==
    LET csi2rxFormat == [code |-> bestCode, size |-> bestSize]
        xispFormat == [code |-> RBG888_1X24, size |-> bestSize]
        vpssFormat == [code |-> RBG888_1X24, size |-> sensorFmt.size]
    IN << Call("sensor", 0, csi2rxFormat),
          Call("csi2rx", 0, csi2rxFormat),
          Call("csi2rx", 1, csi2rxFormat),
          Call("xisp", 0, csi2rxFormat),
          Call("xisp", 1, xispFormat) >>
       \o StreamCalls(cfg, xispFormat, vpssFormat)

\* Number of calls before the loop over the entries, and per entry
FixedCalls == 5
CallsPerStream == 3
MaxCalls == FixedCalls + CallsPerStream * NumStreams

\* What the devices return to the calls of one configure, by position: at
\* most two of them fail
DeviceRets ==
    {[k \in 1 .. MaxCalls |-> IF k \in F THEN Errno(k) ELSE 0] :
        F \in {G \in SUBSET (1 .. MaxCalls) : Cardinality(G) <= 2}}

\* Position of the first failing call of the plan, 0 when none fails
RECURSIVE FirstFailure(_, _, _)
FirstFailure(plan, rets, k) ==
    IF k > Len(plan) THEN 0
    ELSE IF rets[k] # 0 THEN k
    ELSE FirstFailure(plan, rets, k + 1)

\* Formats held by the pads after the calls of `applied` succeeded in order
RECURSIVE ApplyCalls(_, _)
ApplyCalls(fmt, applied) ==
    IF applied = <<>> THEN fmt
    ELSE LET c == Head(applied)
         IN ApplyCalls([fmt EXCEPT ![<<c.dev, c.pad>>] = c.fmt], Tail(applied))

\* Faulty variant of ConfigureOutcome: return codes are checked only after all calls
\* were made
ConfigureOutcomeNoAbort(cfg, plan, rets, fmt, enabled) ==
    LET f == FirstFailure(plan, rets, 1)
    IN [ret |-> IF f = 0 THEN 0 ELSE rets[f],
        issued |-> plan,
        devFmt |-> ApplyCalls(fmt, plan),
        enabled |-> [i \in 1 .. Len(cfg) |-> CHOOSE st \in cfg[i].stream : TRUE]]

\* Faulty variant of ConfigureOutcome: a failing call puts every pad back to the
\* format it had before
ConfigureOutcomeRollback(cfg, plan, rets, fmt, enabled) ==
    LET f == FirstFailure(plan, rets, 1)
        last == IF f = 0 THEN Len(plan) ELSE f
        done == IF f = 0 THEN Len(plan) ELSE f - 1
        nEntries == IF done < FixedCalls THEN 0
                    ELSE (done - FixedCalls) \div CallsPerStream
    IN [ret |-> IF f = 0 THEN 0 ELSE rets[f],
        issued |-> SubSeq(plan, 1, last),
        devFmt |-> IF f = 0 THEN ApplyCalls(fmt, plan) ELSE fmt,
        enabled |-> IF done < FixedCalls THEN enabled
                    ELSE [i \in 1 .. nEntries |->
                            CHOOSE st \in cfg[i].stream : TRUE]]

\* Faulty variant of ConfigureOutcome: enabledStreams_ is cleared before the
\* first format-set call
ConfigureOutcomeClearFirst(cfg, plan, rets, fmt, enabled) ==
    LET f == FirstFailure(plan, rets, 1)
        last == IF f = 0 THEN Len(plan) ELSE f
        done == IF f = 0 THEN Len(plan) ELSE f - 1
        nEntries == IF done < FixedCalls THEN 0
                    ELSE (done - FixedCalls) \div CallsPerStream
    IN [ret |-> IF f = 0 THEN 0 ELSE rets[f],
        issued |-> SubSeq(plan, 1, last),
        devFmt |-> ApplyCalls(fmt, SubSeq(plan, 1, done)),
        enabled |-> [i \in 1 .. nEntries |->
                        CHOOSE st \in cfg[i].stream : TRUE]]

\* Faulty variant of ConfigureOutcome: enabledStreams_ is not cleared before the
\* loop over the entries
ConfigureOutcomeNoClear(cfg, plan, rets, fmt, enabled) ==
    LET f == FirstFailure(plan, rets, 1)
        last == IF f = 0 THEN Len(plan) ELSE f
        done == IF f = 0 THEN Len(plan) ELSE f - 1
        nEntries == IF done < FixedCalls THEN 0
                    ELSE (done - FixedCalls) \div CallsPerStream
    IN [ret |-> IF f = 0 THEN 0 ELSE rets[f],
        issued |-> SubSeq(plan, 1, last),
        devFmt |-> ApplyCalls(fmt, SubSeq(plan, 1, done)),
        enabled |-> enabled \o [i \in 1 .. nEntries |->
                                  CHOOSE st \in cfg[i].stream : TRUE]]

\* configure(): calls are issued in plan order up to and including the first
\* that fails; enabledStreams_ is cleared once the first five succeeded and
\* gets the Stream of every entry whose three calls succeeded.
ConfigureOutcome(cfg, plan, rets, fmt, enabled) ==
    LET f == FirstFailure(plan, rets, 1)
        last == IF f = 0 THEN Len(plan) ELSE f
        done == IF f = 0 THEN Len(plan) ELSE f - 1
        nEntries == IF done < FixedCalls THEN 0
                    ELSE (done - FixedCalls) \div CallsPerStream
    IN [ret |-> IF f = 0 THEN 0 ELSE rets[f],
        issued |-> SubSeq(plan, 1, last),
        devFmt |-> ApplyCalls(fmt, SubSeq(plan, 1, done)),
        enabled |-> IF done < FixedCalls THEN enabled
                    ELSE [i \in 1 .. nEntries |->
                            CHOOSE st \in cfg[i].stream : TRUE]]

\* The framework hands configure() a configuration that validated, while the
\* camera is not running; the camera becomes Configured when it returns 0, and
\* each Stream then carries its entry's configuration.
configure(rets) ==
    /\ registered /\ hasConfig
    /\ status \in {"Valid", "Adjusted"}
    /\ camState \in {"Available", "Configured"}
    /\ LET plan == CallPlan(config_, sensorFormat_, sensorBestSize_,
                            sensorBestFormatCode_)
           o == ConfigureOutcome(config_, plan, rets, devFmt, enabledStreams_)
       IN /\ devFmt' = o.devFmt
          /\ calls' = o.issued
          /\ enabledStreams_' = o.enabled
          /\ camState' = IF o.ret = 0 THEN "Configured" ELSE camState
          /\ streamBufferCount' =
                IF o.ret = 0
                THEN [st \in 0 .. (NumStreams - 1) |->
                        IF \E i \in 1 .. Len(config_) : config_[i].stream = {st}
                        THEN (CHOOSE c \in {config_[i] : i \in 1 .. Len(config_)} :
                                c.stream = {st}).bufferCount
                        ELSE streamBufferCount[st]]
                ELSE streamBufferCount
          /\ op' = [name |-> "configure", ret |-> o.ret, rets |-> rets,
                   again |-> op.name = "configure" /\ op.ret = 0]
    /\ UNCHANGED <<discVars, cfgVars, runVars>>

(***************************************************************************)
(* Streaming runtime: start, stopDevice, queueRequestDevice, bufferReady   *)
(***************************************************************************)

\* pipeFromStream(): pipeIndex(stream) = stream - &streams_[0] selects
\* pipes_[pipeIndex]; positions of pipes_ are counted from 1 here
pipeFromStream(st) == st + 1

\* Where a start() is made to fail: at the at-th enabled Stream, in
\* importBuffers or in streamOn; at = 0 for no failure
StartFaults ==
    {[at |-> 0, step |-> "none"]}
    \cup [at : 1 .. NumStreams, step : {"import", "streamOn"}]

\* A call on the capture device of a Pipe
DevCall(fn, pipe, arg) == [fn |-> fn, pipe |-> pipe, arg |-> arg]

\* Faulty variant of StartFrom: a failing streamOn() releases the buffers that
\* were just imported
RECURSIVE StartFromRelease(_, _, _, _, _, _)
StartFromRelease(enabled, k, dev, counts, fault, issued) ==
    IF k > Len(enabled) THEN [ret |-> 0, dev |-> dev, issued |-> issued]
    ELSE LET pipe == pipeFromStream(enabled[k])
             import == DevCall("importBuffers", pipe, counts[enabled[k]])
             on == DevCall("streamOn", pipe, 0)
             d1 == [dev EXCEPT ![pipe].imported = counts[enabled[k]]]
             d2 == [d1 EXCEPT ![pipe].streaming = TRUE]
         IN IF fault.at = k /\ fault.step = "import"
            THEN [ret |-> Errno(2 * k - 1), dev |-> dev,
                  issued |-> issued \o <<import>>]
            ELSE IF fault.at = k /\ fault.step = "streamOn"
            THEN [ret |-> Errno(2 * k),
                  dev |-> [dev EXCEPT ![pipe].imported = 0],
                  issued |-> issued \o <<import, on>>]
            ELSE StartFromRelease(enabled, k + 1, d2, counts, fault,
                                  issued \o <<import, on>>)

\* exportFrameBuffers(camera, stream): exportBuffers(bufferCount) on the
\* capture device of the Stream's Pipe, which allocates the buffers, hands
\* them to the caller and keeps none; the framework calls it for a Stream of
\* the active configuration of a configured camera.
exportFrameBuffers(st) ==
    /\ registered
    /\ camState = "Configured"
    /\ streamBufferCount[st] > 0
    /\ op' = [name |-> "exportFrameBuffers", ret |-> streamBufferCount[st],
               stream |-> st,
               issued |-> << DevCall("exportBuffers", pipeFromStream(st),
                                     streamBufferCount[st]) >>]
    /\ UNCHANGED <<discVars, cfgVars, devVars, runVars>>

\* The loop of start() from the k-th enabled Stream on: the state of the
\* capture devices, the calls made on them and the returned value
RECURSIVE StartFrom(_, _, _, _, _, _)
StartFrom(enabled, k, dev, counts, fault, issued) ==
    IF k > Len(enabled) THEN [ret |-> 0, dev |-> dev, issued |-> issued]
    ELSE LET pipe == pipeFromStream(enabled[k])
             import == DevCall("importBuffers", pipe, counts[enabled[k]])
             on == DevCall("streamOn", pipe, 0)
             d1 == [dev EXCEPT ![pipe].imported = counts[enabled[k]]]
             d2 == [d1 EXCEPT ![pipe].streaming = TRUE]
         IN IF fault.at = k /\ fault.step = "import"
            THEN [ret |-> Errno(2 * k - 1), dev |-> dev,
                  issued |-> issued \o <<import>>]
            ELSE IF fault.at = k /\ fault.step = "streamOn"
            THEN [ret |-> Errno(2 * k), dev |-> d1,
                  issued |-> issued \o <<import, on>>]
            ELSE StartFrom(enabled, k + 1, d2, counts, fault,
                           issued \o <<import, on>>)

\* The framework calls start() on a configured camera that is not running and
\* marks it Running when start() returns 0.
start(fault) ==
    /\ registered
    /\ camState = "Configured"
    /\ LET o == StartFrom(enabledStreams_, 1, capDev, streamBufferCount, fault,
                          <<>>)
       IN /\ capDev' = o.dev
          /\ camState' = IF o.ret = 0 THEN "Running" ELSE camState
          /\ op' = [name |-> "start", ret |-> o.ret, issued |-> o.issued]
    /\ UNCHANGED <<discVars, cfgVars, enabledStreams_, streamBufferCount,
                   devFmt, calls, queued, reqs>>

\* The capture-device calls of a stopDevice that fail: streamOff() and
\* releaseBuffers() return a value nobody reads; a call that fails leaves its
\* device as it was
StopCalls == {DevCall(fn, p, 0) : fn \in {"streamOff", "releaseBuffers"},
                                  p \in 1 .. NumStreams}
StopFaults == SUBSET StopCalls
NoStopFault == {}

\* Faulty variant of StopFrom: the streaming state of the Pipe is switched
\* instead of switched off
RECURSIVE StopFromSwitch(_, _, _, _, _)
StopFromSwitch(enabled, k, dev, failed, issued) ==
    IF k > Len(enabled) THEN [dev |-> dev, issued |-> issued]
    ELSE LET pipe == pipeFromStream(enabled[k])
             off == DevCall("streamOff", pipe, 0)
             release == DevCall("releaseBuffers", pipe, 0)
             d1 == IF off \in failed THEN dev
                   ELSE [dev EXCEPT ![pipe].streaming = ~@]
             d2 == IF release \in failed THEN d1
                   ELSE [d1 EXCEPT ![pipe].imported = 0]
         IN StopFromSwitch(enabled, k + 1, d2, failed,
                           issued \o <<off, release>>)

\* Faulty variant of StopFrom: the loop is left at the first call that fails
RECURSIVE StopFromAbort(_, _, _, _, _)
StopFromAbort(enabled, k, dev, failed, issued) ==
    IF k > Len(enabled) THEN [dev |-> dev, issued |-> issued]
    ELSE LET pipe == pipeFromStream(enabled[k])
             off == DevCall("streamOff", pipe, 0)
             release == DevCall("releaseBuffers", pipe, 0)
             d1 == [dev EXCEPT ![pipe].streaming = FALSE]
             d2 == [d1 EXCEPT ![pipe].imported = 0]
         IN IF off \in failed
            THEN [dev |-> dev, issued |-> issued \o <<off>>]
            ELSE IF release \in failed
            THEN [dev |-> d1, issued |-> issued \o <<off, release>>]
            ELSE StopFromAbort(enabled, k + 1, d2, failed,
                               issued \o <<off, release>>)

\* The loop of stopDevice(): streamOff() and releaseBuffers() on the Pipe of
\* every enabled Stream, whatever they return; a capture device that is not
\* streaming stays so, and one without imported buffers stays without
RECURSIVE StopFrom(_, _, _, _, _)
StopFrom(enabled, k, dev, failed, issued) ==
    IF k > Len(enabled) THEN [dev |-> dev, issued |-> issued]
    ELSE LET pipe == pipeFromStream(enabled[k])
             off == DevCall("streamOff", pipe, 0)
             release == DevCall("releaseBuffers", pipe, 0)
             d1 == IF off \in failed THEN dev
                   ELSE [dev EXCEPT ![pipe].streaming = FALSE]
             d2 == IF release \in failed THEN d1
                   ELSE [d1 EXCEPT ![pipe].imported = 0]
         IN StopFrom(enabled, k + 1, d2, failed, issued \o <<off, release>>)

\* The framework calls stopDevice() when the application stops the camera and
\* takes the camera out of Running.
stopDevice(failed) ==
    /\ registered
    /\ camState \in {"Configured", "Running"}
    /\ LET o == StopFrom(enabledStreams_, 1, capDev, failed, <<>>)
       IN /\ capDev' = o.dev
          /\ op' = [name |-> "stopDevice", ret |-> 0, prev |-> op.name,
                   from |-> camState, issued |-> o.issued, failed |-> failed]
    /\ camState' = "Configured"
    /\ UNCHANGED <<discVars, cfgVars, enabledStreams_, streamBufferCount,
                   devFmt, calls, queued, reqs>>

Requests == 1 .. MaxReq

\* Hardware timestamps of filled buffers
Timestamps == 1 .. MaxTs

\* Metadata without a SensorTimestamp
NoTimestamp == 0

\* A Request the application has not created yet
NewRequest ==
    [state |-> "new", bufs |-> {}, pending |-> {}, timestamp |-> NoTimestamp,
     completions |-> 0, notified |-> 0, firstStamp |-> NoTimestamp]

Buffer(r, slot) == [req |-> r, slot |-> slot]

\* Requests are created in the order of their numbers
NextRequest(r) ==
    /\ reqs[r].state = "new"
    /\ \A q \in Requests : q < r => reqs[q].state # "new"

\* The slots of a Request in the order of its buffer map
RECURSIVE Ascending(_)
Ascending(S) ==
    IF S = {} THEN <<>>
    ELSE LET m == CHOOSE x \in S : \A y \in S : x <= y
         IN <<m>> \o Ascending(S \ {m})

\* Faulty variant of QueueFrom: the result of queueBuffer() is ignored
RECURSIVE QueueFromUnchecked(_, _, _, _, _)
QueueFromUnchecked(r, slots, k, q, failAt) ==
    IF k > Len(slots) THEN [ret |-> 0, queued |-> q, issued |-> <<>>]
    ELSE LET call == DevCall("queueBuffer", pipeFromStream(slots[k]),
                             Buffer(r, slots[k]))
             rest == QueueFromUnchecked(r, slots, k + 1,
                                        IF failAt = k THEN q
                                        ELSE q \cup {Buffer(r, slots[k])},
                                        failAt)
         IN [rest EXCEPT !.issued = <<call>> \o @]

\* Faulty variant of QueueFrom: a failing queueBuffer() is called again and
\* then succeeds
RECURSIVE QueueFromRetry(_, _, _, _, _)
QueueFromRetry(r, slots, k, q, failAt) ==
    IF k > Len(slots) THEN [ret |-> 0, queued |-> q, issued |-> <<>>]
    ELSE LET call == DevCall("queueBuffer", pipeFromStream(slots[k]),
                             Buffer(r, slots[k]))
             rest == QueueFromRetry(r, slots, k + 1,
                                    q \cup {Buffer(r, slots[k])}, failAt)
         IN [rest EXCEPT !.issued = (IF failAt = k THEN <<call, call>>
                                     ELSE <<call>>) \o @]

\* The loop of queueRequestDevice() from the k-th (Stream, buffer) pair on:
\* queueBuffer() on the capture device of the Stream's Pipe; it fails at pair
\* failAt (0: never)
RECURSIVE QueueFrom(_, _, _, _, _)
QueueFrom(r, slots, k, q, failAt) ==
    IF k > Len(slots) THEN [ret |-> 0, queued |-> q, issued |-> <<>>]
    ELSE LET call == DevCall("queueBuffer", pipeFromStream(slots[k]),
                             Buffer(r, slots[k]))
         IN IF failAt = k
            THEN [ret |-> Errno(k), queued |-> q, issued |-> <<call>>]
            ELSE LET rest == QueueFrom(r, slots, k + 1,
                                       q \cup {Buffer(r, slots[k])}, failAt)
                 IN [rest EXCEPT !.issued = <<call>> \o @]

\* The application creates Request r with one buffer per enabled Stream and
\* queues it on the running camera.
queueRequestDevice(r, failAt) ==
    /\ registered
    /\ camState = "Running"
    /\ enabledStreams_ # <<>>
    /\ NextRequest(r)
    /\ LET bufs == {enabledStreams_[i] : i \in 1 .. Len(enabledStreams_)}
           o == QueueFrom(r, Ascending(bufs), 1, queued, failAt)
       IN /\ queued' = o.queued
          /\ reqs' = [reqs EXCEPT ![r] =
                        [NewRequest EXCEPT
                            !.state = IF o.ret = 0 THEN "queued" ELSE "rejected",
                            !.bufs = bufs, !.pending = bufs]]
          /\ op' = [name |-> "queueRequestDevice", ret |-> o.ret, req |-> r,
                   failAt |-> failAt, issued |-> o.issued]
    /\ UNCHANGED <<discVars, cfgVars, devVars, capDev>>

\* completeBuffer(request, buffer): the buffer leaves the Request's pending set
CompleteBuffer(req, slot) == [req EXCEPT !.pending = @ \ {slot}]

\* request->hasPendingBuffers()
HasPendingBuffers(req) == req.pending # {}

\* completeRequest(request): the Request is handed back as completed
CompleteRequest(req) == [req EXCEPT !.completions = @ + 1]

\* Faulty variant of BufferReadyOutcome: the Request is completed without looking at
\* its pending buffers
BufferReadyOutcomeNoPendingCheck(req, slot, ts) ==
    LET stamped == IF req.timestamp = NoTimestamp
                   THEN [req EXCEPT !.timestamp = ts] ELSE req
    IN CompleteRequest(CompleteBuffer(stamped, slot))

\* Faulty variant of BufferReadyOutcome: the timestamp is written on every notification
BufferReadyOutcomeRestamp(req, slot, ts) ==
    LET stamped == [req EXCEPT !.timestamp = ts]
        done == CompleteBuffer(stamped, slot)
    IN IF HasPendingBuffers(done) THEN done ELSE CompleteRequest(done)

\* bufferReady(buffer) on the buffer's Request: stamp the metadata if it has no
\* SensorTimestamp, complete the buffer, and complete the Request unless it
\* has pending buffers.
BufferReadyOutcome(req, slot, ts) ==
    LET stamped == IF req.timestamp = NoTimestamp
                   THEN [req EXCEPT !.timestamp = ts] ELSE req
        done == CompleteBuffer(stamped, slot)
    IN IF HasPendingBuffers(done) THEN done ELSE CompleteRequest(done)

\* The notification is counted, and the timestamp of a Request's first
\* notification remembered, to state what the handler did with them.
Notified(req, ts) ==
    [req EXCEPT !.notified = @ + 1,
                !.firstStamp = IF req.notified = 0 THEN ts ELSE @]

\* Faulty variant of bufferReady: the timestamp goes into the metadata of
\* every Request in flight that has none
bufferReadyStampAll(b, ts) ==
    /\ connected
    /\ b \in queued
    /\ queued' = queued \ {b}
    /\ reqs' = [r \in Requests |->
                    IF r = b.req
                    THEN Notified(BufferReadyOutcome(reqs[r], b.slot, ts), ts)
                    ELSE IF reqs[r].state = "queued"
                            /\ reqs[r].timestamp = NoTimestamp
                    THEN [reqs[r] EXCEPT !.timestamp = ts]
                    ELSE reqs[r]]
    /\ op' = [name |-> "bufferReady", ret |-> 0, req |-> b.req,
               other |-> reqs[b.req].notified > 0 /\ ts # reqs[b.req].firstStamp]
    /\ UNCHANGED <<discVars, cfgVars, devVars, capDev>>

\* The capture device reports the accepted buffer b, filled at time ts.
bufferReady(b, ts) ==
    /\ connected
    /\ b \in queued
    /\ queued' = queued \ {b}
    /\ reqs' = [reqs EXCEPT ![b.req] =
                    Notified(BufferReadyOutcome(reqs[b.req], b.slot, ts), ts)]
    /\ op' = [name |-> "bufferReady", ret |-> 0, req |-> b.req,
               other |-> reqs[b.req].notified > 0 /\ ts # reqs[b.req].firstStamp]
    /\ UNCHANGED <<discVars, cfgVars, devVars, capDev>>

\* A Request with two buffers, one per Stream of a two-channel camera, whose
\* buffers the capture devices accepted: the case bufferReady() is written
\* for and the one-Stream camera never submits.
twoBufferRequest(r) ==
    /\ registered
    /\ camState = "Running"
    /\ NextRequest(r)
    /\ queued' = queued \cup {Buffer(r, 0), Buffer(r, 1)}
    /\ reqs' = [reqs EXCEPT ![r] =
                    [NewRequest EXCEPT !.state = "queued", !.bufs = {0, 1},
                                       !.pending = {0, 1}]]
    /\ op' = [name |-> "twoBufferRequest", ret |-> 0]
    /\ UNCHANGED <<discVars, cfgVars, devVars, capDev>>

\* A buffer of Request r that was already reported is reported once more.
reportAgain(b, ts) ==
    /\ connected
    /\ reqs[b.req].state = "queued"
    /\ b.slot \in reqs[b.req].bufs
    /\ b \notin queued
    /\ reqs[b.req].notified <= Cardinality(reqs[b.req].bufs)
    /\ reqs' = [reqs EXCEPT ![b.req] =
                    Notified(BufferReadyOutcome(reqs[b.req], b.slot, ts), ts)]
    /\ op' = [name |-> "bufferReady", ret |-> 0, req |-> b.req,
               other |-> reqs[b.req].notified > 0 /\ ts # reqs[b.req].firstStamp]
    /\ UNCHANGED <<discVars, cfgVars, devVars, capDev, queued>>

(***************************************************************************)
(* Specifications                                                          *)
(***************************************************************************)

Init ==
    /\ hw = NoSystem
    /\ queries = <<>>
    /\ matchResult = "none"
    /\ mediaDev_ = {}
    /\ sensor_ = "null" /\ vcm_ = "null" /\ csi2rx_ = "null" /\ xisp_ = "null"
    /\ pipes_ = <<>>
    /\ sensorBestSize_ = NullSize
    /\ sensorBestFormatCode_ = Indeterminate
    /\ connected = FALSE
    /\ registered = FALSE
    /\ camSensor_ = "null"
    /\ hasConfig = FALSE
    /\ config_ = <<>>
    /\ sensorFormat_ = UnsetFormat
    /\ status = "none"
    /\ camState = "Available"
    /\ enabledStreams_ = <<>>
    /\ streamBufferCount = [st \in 0 .. (NumStreams - 1) |-> 0]
    /\ devFmt = [p \in Pads |-> NoFormat]
    /\ calls = <<>>
    /\ capDev = [p \in 1 .. NumStreams |-> [imported |-> 0, streaming |-> FALSE]]
    /\ queued = {}
    /\ reqs = [r \in Requests |-> NewRequest]
    /\ op = [name |-> "construct", ret |-> "none"]

\* The framework calls match() once on a freshly constructed handler.
Discover ==
    /\ matchResult = "none"
    /\ \E e \in Systems, ub \in NullDerefOutcomes : match(e, ub)

NextMatch == Discover

\* Discovery on every system of Systems
SpecMatch == Init /\ [][NextMatch]_vars

\* Systems on which discovery registers a camera
WorkingSystems ==
    {e \in Systems :
        /\ e.present = {0}
        /\ e.ents = Roles
        /\ e.families = {"imx219"}
        /\ e.sensorTag /\ e.sensorInit
        /\ e.openFail = {}}

DiscoverCamera ==
    /\ matchResult = "none"
    /\ \E e \in WorkingSystems : match(e, "crash")

Generate == \E n \in 0 .. MaxEntries : generateConfiguration(n)

Validate == \E p \in Proposals : validate(p)

Configure == \E rets \in DeviceRets : configure(rets)

NextConfig ==
    \/ DiscoverCamera
    \/ Generate
    \/ Validate
    \/ Configure

\* Discovery and configuration; up to two format-set calls of a configure fail
SpecConfig == Init /\ [][NextConfig]_vars

ValidateAny == \E p \in AnyProposals : validate(p)

\* No device call of configure fails
NoFailure == [k \in 1 .. MaxCalls |-> 0]

ConfigureClean == configure(NoFailure)

NextValidate ==
    \/ DiscoverCamera
    \/ Generate
    \/ ValidateAny
    \/ ConfigureClean

\* Validation and configuration of entries of any size and pixel format, on
\* devices that accept every format
SpecValidate == Init /\ [][NextValidate]_vars

\* The device returns in which at most one call fails
SingleFaults ==
    {r \in DeviceRets : Cardinality({k \in 1 .. MaxCalls : r[k] # 0}) <= 1}

ConfigureOnce == \E rets \in SingleFaults : configure(rets)

Start == \E fault \in StartFaults : start(fault)

\* A stop in which every capture-device call succeeds
Stop == stopDevice(NoStopFault)

StopAny == \E failed \in StopFaults : stopDevice(failed)

Next ==
    \/ DiscoverCamera
    \/ Generate
    \/ Validate
    \/ ConfigureOnce
    \/ Start
    \/ Stop

\* Discovery, configuration with a failing format-set call, start and stop
Spec == Init /\ [][Next]_vars

NextStop ==
    \/ DiscoverCamera
    \/ Generate
    \/ ConfigureClean
    \/ Start
    \/ StopAny

\* Start and stop of the configured camera with capture-device calls that
\* fail
SpecStop == Init /\ [][NextStop]_vars

Submit == \E r \in Requests, failAt \in 0 .. NumStreams : queueRequestDevice(r, failAt)

SubmitTwo == \E r \in Requests : twoBufferRequest(r)

Deliver == \E b \in queued, ts \in Timestamps : bufferReady(b, ts)

DeliverAgain ==
    \E r \in Requests, slot \in {0, 1}, ts \in Timestamps :
        reportAgain(Buffer(r, slot), ts)

NextRun ==
    \/ DiscoverCamera
    \/ Generate
    \/ ConfigureClean
    \/ Start
    \/ Stop
    \/ Submit
    \/ Deliver

Export == \E st \in 0 .. (NumStreams - 1) : exportFrameBuffers(st)

\* Buffer allocation and the streaming runtime of the one-Stream camera
SpecExport == Init /\ [][NextRun \/ Export]_vars

\* The streaming runtime of the one-Stream camera, on which configure meets
\* no device error, with the assumption that the capture device eventually
\* reports every buffer it accepted
SpecLive == Init /\ [][NextRun]_vars /\ WF_vars(Deliver)

NextStream ==
    \/ NextRun
    \/ SubmitTwo

\* The streaming runtime with one- and two-buffer Requests; every accepted
\* buffer is reported once
SpecStream == Init /\ [][NextStream]_vars

\* The same as SpecStream, and a reported buffer may be reported again
SpecDup == Init /\ [][NextStream \/ DeliverAgain]_vars

(***************************************************************************)
(* Properties                                                              *)
(***************************************************************************)

C2_TwoBuffersCompleteOnce ==
    \A r \in Requests :
        reqs[r].bufs = {0, 1} =>
            /\ reqs[r].completions > 0 => reqs[r].pending = {}
            /\ reqs[r].completions <= 1

\* C3: every Request whose queueRequestDevice returned 0 is eventually
\* completed, when the capture device eventually reports every buffer it
\* accepted.
C3_AcceptedEventuallyCompletes ==
    \A r \in Requests :
        (reqs[r].state = "queued") ~> (reqs[r].completions > 0)

\* C3 witness: a Request queued by queueRequestDevice was completed
C3_Witness ==
    \E r \in Requests :
        /\ reqs[r].state = "queued"
        /\ reqs[r].bufs = {0}
        /\ reqs[r].completions = 1

\* C4: the SensorTimestamp of a Request is absent before its first
\* notification and afterwards is the timestamp of the buffer of the first
\* notification, whatever later notifications carry.
C4_TimestampOfFirstNotification ==
    \A r \in Requests :
        /\ reqs[r].notified = 0 => reqs[r].timestamp = NoTimestamp
        /\ reqs[r].notified > 0 =>
              /\ reqs[r].timestamp # NoTimestamp
              /\ reqs[r].timestamp = reqs[r].firstStamp

\* C4 witness: a later notification carried another timestamp than the first
C4_Witness ==
    /\ op.name = "bufferReady"
    /\ reqs[op.req].notified = 2
    /\ op.other
    /\ reqs[op.req].timestamp = reqs[op.req].firstStamp

\* Smallest instance index of a non-empty set of instances
FirstInstance(present) == CHOOSE i \in present : \A j \in present : i <= j

\* C5: discovery queries the instances 0, 1, 2, ... in ascending order without
\* a gap, stops with the first one that has a device group and selects it, and
\* queries all four when none has; with only instance 2 present it selects
\* instance 2, and registers the camera when the group is complete and opens.
C5_AscendingFirstMatch ==
    matchResult # "none" =>
        /\ \A i \in 1 .. Len(queries) : queries[i] = i - 1
        /\ IF hw.present = {}
           THEN Len(queries) = NumInstances /\ mediaDev_ = {}
           ELSE /\ mediaDev_ = {FirstInstance(hw.present)}
                /\ Len(queries) = FirstInstance(hw.present) + 1
        /\ (/\ hw.present = {2}
            /\ {"sensor", "csi2rx", "xisp", "resizer", "capture"} \subseteq hw.ents
            /\ hw.openFail = {} /\ hw.sensorTag /\ hw.sensorInit)
           => (mediaDev_ = {2} /\ matchResult = "true" /\ registered)

\* C5 witness: only instance 2 is present and it was bound
C5_Witness ==
    /\ hw.present = {2}
    /\ queries = <<0, 1, 2>>
    /\ mediaDev_ = {2}
    /\ registered

\* C6: when a device group was selected and one of receiver, ISP core, resizer
\* and capture is missing from it or fails to open, match reports failure and
\* no camera is registered.
C6_MissingRoleFailsDiscovery ==
    (/\ matchResult # "none"
     /\ mediaDev_ # {}
     /\ \E role \in OpenRoles : role \notin hw.ents \/ role \in hw.openFail)
    => (matchResult = "false" /\ ~registered)

\* C7: after match returned, either a camera is registered, every role handle
\* is bound and opened and there is exactly one Pipe, or discovery failed and
\* the handler keeps no role handle, no Pipe and no acquired device group.
C7_NoPartialBinding ==
    matchResult \in {"true", "false"} =>
        \/ /\ matchResult = "true"
           /\ registered
           /\ camSensor_ = "ok" /\ sensor_ # "null"
           /\ csi2rx_ = "open" /\ xisp_ = "open"
           /\ pipes_ = <<[resizer |-> "open", capture |-> "open"]>>
        \/ /\ matchResult = "false"
           /\ ~registered
           /\ sensor_ = "null" /\ csi2rx_ = "null" /\ xisp_ = "null"
           /\ pipes_ = <<>>
           /\ mediaDev_ = {}

\* The device pads in the order configure reaches them
StageOrder ==
    << <<"sensor", 0>>, <<"csi2rx", 0>>, <<"csi2rx", 1>>, <<"xisp", 0>>,
       <<"xisp", 1>>, <<"resizer", 0>>, <<"resizer", 1>>, <<"capture", 0>> >>

\* C8: the format-set calls of a configure go to sensor, receiver pad 0 and 1,
\* ISP core pad 0 and 1, resizer pad 0 and 1 and capture, in this order; they
\* stop with the first call that fails, whose error code configure returns,
\* and all eight are made and 0 is returned when none fails.
C8_OrderedCallsAbortOnFailure ==
    op.name = "configure" =>
        /\ Len(calls) <= Len(StageOrder)
        /\ \A i \in 1 .. Len(calls) :
              <<calls[i].dev, calls[i].pad>> = StageOrder[i]
        /\ \A i \in 1 .. (Len(calls) - 1) : op.rets[i] = 0
        /\ IF \E k \in 1 .. MaxCalls : op.rets[k] # 0
           THEN /\ op.rets[Len(calls)] # 0
                /\ op.ret = op.rets[Len(calls)]
           ELSE Len(calls) = Len(StageOrder) /\ op.ret = 0

\* C8 witness: two calls were set to fail and configure stopped at the first
C8_Witness ==
    /\ op.name = "configure"
    /\ op.rets[4] # 0 /\ op.rets[7] # 0
    /\ Len(calls) = 4
    /\ op.ret = op.rets[4]

\* C9: validate on a proposal of more than one entry returns Adjusted and on a
\* proposal of one entry returns Valid; either way it leaves exactly one
\* entry, the first of the proposal, bound to Stream 0.
C9_TruncatedToOneEntry ==
    (op.name = "validate" /\ op.proposed >= 1) =>
        /\ op.ret = IF op.proposed > 1 THEN "Adjusted" ELSE "Valid"
        /\ status = op.ret
        /\ Len(config_) = 1
        /\ config_[1].size = op.first[1].size
        /\ config_[1].pixelFormat = op.first[1].pixelFormat
        /\ config_[1].stream = {0}

\* C9 witness: a proposal of two entries was adjusted
C9_Witness ==
    /\ op.name = "validate"
    /\ op.proposed = 2
    /\ op.ret = "Adjusted"
    /\ Len(config_) = 1

\* C10: a validate on a proposal without entries returns Invalid and changes
\* neither the entries (no Stream gets bound) nor the recorded sensor format
\* nor any device: formats, format-set calls, buffers, streaming.
C10_EmptyProposalRejected ==
    [][(op'.name = "validate" /\ op'.proposed = 0) =>
          /\ op'.ret = "Invalid"
          /\ status' = "Invalid"
          /\ config_' = <<>>
          /\ UNCHANGED <<config_, sensorFormat_, devVars, runVars>>]_vars

\* C10 witness: an empty proposal was validated
C10_Witness ==
    /\ op.name = "validate"
    /\ op.proposed = 0
    /\ op.ret = "Invalid"
    /\ config_ = <<>>

\* SizeRange::contains for the advertised range
InSizeRange(sz) ==
    /\ kMinXISPSize.width <= sz.width /\ sz.width <= kMaxXISPSize.width
    /\ kMinXISPSize.height <= sz.height /\ sz.height <= kMaxXISPSize.height

\* C11: after validate returned Valid or Adjusted, every entry it left has a
\* size inside the range 64x64 .. 4096x4096 and a pixel format that is a key of
\* formatsMap_, whatever the application proposed.
C11_ValidatedEntriesRealizable ==
    (op.name = "validate" /\ op.ret \in {"Valid", "Adjusted"}) =>
        \A i \in 1 .. Len(config_) :
            /\ InSizeRange(config_[i].size)
            /\ config_[i].pixelFormat \in FormatsMapKeys

\* C12: a configure that directly follows a configure of the same validated
\* entries, with the devices answering as before, issues the same format-set
\* calls with the same formats, leaves every pad with the format it had, and
\* leaves the same enabledStreams_, in which no Stream occurs twice.
C12_ConfigureTwiceIdempotent ==
    [][(/\ op.name = "configure" /\ op'.name = "configure"
        /\ op'.rets = op.rets)
       => /\ calls' = calls
          /\ devFmt' = devFmt
          /\ enabledStreams_' = enabledStreams_
          /\ op'.ret = op.ret
          /\ \A i, j \in 1 .. Len(enabledStreams_') :
                enabledStreams_'[i] = enabledStreams_'[j] => i = j]_vars

\* C12 witness: a second successful configure in a row, all eight calls
\* issued and Stream 0 enabled once
C12_Witness ==
    /\ op.name = "configure"
    /\ op.again /\ op.ret = 0
    /\ Len(calls) = MaxCalls
    /\ enabledStreams_ = <<0>>

\* No capture device is streaming or holds imported buffers
AllIdle == \A p \in 1 .. NumStreams : ~capDev[p].streaming /\ capDev[p].imported = 0

\* C13: a stopDevice on Pipes that are not started -- no start was performed
\* yet (every Pipe is idle), or the operation before was a stopDevice whose
\* device calls succeeded --
\* reports no error and changes neither the streaming state nor the buffer
\* pool of a Pipe, nor the enabled Streams or the buffers in flight.
C13_StopWithoutStartNoOp ==
    [][(/\ op'.name = "stopDevice"
        /\ AllIdle \/ (op.name = "stopDevice" /\ op.failed = {}))
       => /\ op'.ret = 0
          /\ capDev' = capDev
          /\ UNCHANGED <<enabledStreams_, streamBufferCount, queued, reqs>>]_vars

\* C13 witness: a stopDevice directly after a stopDevice, with Stream 0
\* enabled
C13_Witness ==
    /\ op.name = "stopDevice"
    /\ op.prev = "stopDevice"
    /\ enabledStreams_ = <<0>>
    /\ AllIdle

\* C14: after the entity scan of a selected device group, the recorded native
\* size and encoding depend on the sensor entity name only: imx219 gives
\* 1920x1080, imx708 1536x864, imx477 1332x990, imx500 2028x1520, each with
\* SRGGB10; a name with "imx" and none of the four records no size and no
\* encoding, and without an "imx" name there is no sensor handle either and
\* no camera is registered.
C14_SensorProfileByName ==
    (matchResult # "none" /\ mediaDev_ # {}) =>
        LET named(f) == "sensor" \in hw.ents /\ hw.families = {f}
            profile(sz) == sensorBestSize_ = sz /\ sensorBestFormatCode_ = SRGGB10
        IN /\ named("imx219") => profile(Size(1920, 1080))
           /\ named("imx708") => profile(Size(1536, 864))
           /\ named("imx477") => profile(Size(1332, 990))
           /\ named("imx500") => profile(Size(2028, 1520))
           /\ ("sensor" \notin hw.ents \/ hw.families = {})
                => /\ sensorBestSize_ = NullSize
                   /\ sensorBestFormatCode_ = Indeterminate
           /\ "sensor" \notin hw.ents => (sensor_ = "null" /\ ~registered)

\* C14 witness: a group with an imx477 sensor was bound with its profile
C14_Witness ==
    /\ matchResult = "true" /\ registered
    /\ hw.families = {"imx477"}
    /\ sensorBestSize_ = Size(1332, 990)
    /\ sensorBestFormatCode_ = SRGGB10

\* C15: when a format-set call of a configure fails, every pad whose call was
\* made before it holds the format of that call, and every pad the plan
\* reaches after the failing call holds the format it had before the
\* configure.
C15_NoRollbackOnFailure ==
    [][(op'.name = "configure" /\ op'.ret # 0) =>
          LET k == Len(calls')
          IN /\ \A i \in 1 .. (k - 1) : devFmt'[StageOrder[i]] = calls'[i].fmt
             /\ \A i \in (k + 1) .. Len(StageOrder) :
                    devFmt'[StageOrder[i]] = devFmt[StageOrder[i]]]_vars

\* C15 witness: after a configure for 640x480, a configure for 1920x1080
\* failed at the capture device: the resizer output is on the new size, the
\* capture device on the old one
C15_Witness ==
    /\ op.name = "configure" /\ op.ret # 0
    /\ Len(calls) = MaxCalls
    /\ devFmt[<<"resizer", 1>>] = [code |-> RBG888_1X24, size |-> Size(1920, 1080)]
    /\ devFmt[<<"capture", 0>>] # NoFormat
    /\ devFmt[<<"capture", 0>>].size = Size(640, 480)

RECURSIVE StartPlan(_, _)
StartPlan(enabled, counts) ==
    IF enabled = <<>> THEN <<>>
    ELSE << DevCall("importBuffers", Head(enabled) + 1, counts[Head(enabled)]),
            DevCall("streamOn", Head(enabled) + 1, 0) >>
         \o StartPlan(Tail(enabled), counts)

\* C17: the capture-device calls of a start are, for each enabled Stream in
\* list order, importBuffers with the Stream's buffer count and then streamOn
\* on the Stream's Pipe; they end with the first call that fails, whose error
\* start returns; every call that succeeded keeps its effect (buffers stay
\* imported, a streaming Pipe keeps streaming) and nothing else is changed
\* on any Pipe.
C17_StartAbortsWithoutRollback ==
    [][op'.name = "start" =>
          LET plan == StartPlan(enabledStreams_, streamBufferCount)
              n == Len(op'.issued)
              ok == IF op'.ret = 0 THEN n ELSE n - 1
              succeeded(fn, p) ==
                  \E i \in 1 .. ok : plan[i].fn = fn /\ plan[i].pipe = p
          IN /\ n <= Len(plan)
             /\ op'.issued = SubSeq(plan, 1, n)
             /\ op'.ret = 0 => n = Len(plan)
             /\ op'.ret # 0 => (n >= 1 /\ op'.ret = Errno(n))
             /\ \A p \in 1 .. NumStreams :
                   /\ capDev'[p].imported =
                         IF succeeded("importBuffers", p)
                         THEN streamBufferCount[p - 1] ELSE capDev[p].imported
                   /\ capDev'[p].streaming =
                         IF succeeded("streamOn", p)
                         THEN TRUE ELSE capDev[p].streaming
             /\ UNCHANGED <<enabledStreams_, streamBufferCount, queued, reqs>>]_vars

\* C17 witness: streamOn failed after the buffers of Stream 0 were imported;
\* start returned its error and the buffers are still imported
C17_Witness ==
    /\ op.name = "start" /\ op.ret = Errno(2)
    /\ op.issued = << DevCall("importBuffers", 1, DefaultBufferCount),
                      DevCall("streamOn", 1, 0) >>
    /\ capDev[1].imported = DefaultBufferCount
    /\ ~capDev[1].streaming

\* The capture-device calls of a stopDevice: for each enabled Stream, in list
\* order, streamOff then releaseBuffers on its Pipe
RECURSIVE StopPlan(_)
StopPlan(enabled) ==
    IF enabled = <<>> THEN <<>>
    ELSE << DevCall("streamOff", Head(enabled) + 1, 0),
            DevCall("releaseBuffers", Head(enabled) + 1, 0) >>
         \o StopPlan(Tail(enabled))

C19_SubmitAbortsAtFirstFailure ==
    [][op'.name = "queueRequestDevice" =>
          LET r == op'.req
              slots == Ascending(reqs'[r].bufs)
              failed == op'.failAt \in 1 .. Len(slots)
              n == IF failed THEN op'.failAt - 1 ELSE Len(slots)
          IN /\ op'.ret = IF failed THEN Errno(op'.failAt) ELSE 0
             /\ queued' = queued \cup {Buffer(r, slots[i]) : i \in 1 .. n}
             /\ \A q \in Requests \ {r} : reqs'[q] = reqs[q]
             /\ reqs'[r].completions = 0
             /\ UNCHANGED capDev]_vars

\* C19 witness: queueBuffer failed for the buffer of a Request while the
\* buffer of an earlier Request is held by the device, and stays held
C19_Witness ==
    /\ op.name = "queueRequestDevice" /\ op.ret # 0
    /\ op.failAt = 1
    /\ Buffer(op.req, 0) \notin queued
    /\ \E q \in Requests : q # op.req /\ Buffer(q, 0) \in queued

\* C20: every Stream of enabledStreams_ has a position smaller than the
\* number of Pipes, and the device calls that configure, exportFrameBuffers,
\* start, stopDevice and queueRequestDevice make for a Stream all go to the
\* Pipe at the Stream's position (Pipes are counted from 1 in the calls).
C20_StreamPipeByPosition ==
    /\ \A i \in 1 .. Len(enabledStreams_) : enabledStreams_[i] < Len(pipes_)
    /\ op.name = "configure" =>
          \A i \in 1 .. Len(config_), k \in 1 .. CallsPerStream :
              LET n == FixedCalls + CallsPerStream * (i - 1) + k
              IN n <= Len(calls) =>
                    \A st \in config_[i].stream : calls[n].pipe = st + 1
    /\ op.name = "exportFrameBuffers" =>
          \A i \in 1 .. Len(op.issued) : op.issued[i].pipe = op.stream + 1
    /\ op.name \in {"start", "stopDevice"} =>
          \A i \in 1 .. Len(op.issued) :
              op.issued[i].pipe = enabledStreams_[(i + 1) \div 2] + 1
    /\ op.name = "queueRequestDevice" =>
          \A i \in 1 .. Len(op.issued) :
              op.issued[i].pipe = op.issued[i].arg.slot + 1

\* C20 witness: buffers are exported for Stream 0 from the Pipe that the
\* configure before it set up
C20_Witness ==
    /\ op.name = "exportFrameBuffers" /\ op.stream = 0
    /\ op.issued[1].pipe = 1
    /\ enabledStreams_ = <<0>>
    /\ Len(pipes_) = 1
    /\ Len(calls) = MaxCalls /\ calls[MaxCalls].pipe = 1

\* C21: a bufferReady notification for a buffer of a Request changes no other
\* Request (pending buffers, timestamp, completion) and takes no buffer of
\* another Request from the capture device; submitting a Request changes no
\* Request that exists already and leaves the buffers in flight in flight.
C21_RequestsIsolated ==
    [][/\ op'.name = "bufferReady" =>
             /\ \A q \in Requests \ {op'.req} : reqs'[q] = reqs[q]
             /\ queued' \subseteq queued
             /\ \A b \in queued \ queued' : b.req = op'.req
       /\ op'.name \in {"queueRequestDevice", "twoBufferRequest"} =>
             /\ \A q \in Requests : reqs[q].state # "new" => reqs'[q] = reqs[q]
             /\ queued \subseteq queued']_vars

\* C21 witness: two Requests were submitted and the buffer of the second was
\* reported first: the second is completed, the first is untouched
C21_Witness ==
    /\ op.name = "bufferReady" /\ op.req = 2
    /\ reqs[2].completions = 1
    /\ reqs[1].state = "queued"
    /\ reqs[1].pending = reqs[1].bufs
    /\ reqs[1].timestamp = NoTimestamp
    /\ reqs[1].completions = 0

\* C22: when the selected device group has receiver, ISP core, resizer and
\* capture entities that all open, and has no sensor entity or one without
\* the camera-sensor function tag, match returns false and no camera is
\* registered.
C22_NoSensorFailsDiscovery ==
    (/\ matchResult # "none"
     /\ mediaDev_ # {}
     /\ OpenRoles \subseteq hw.ents
     /\ hw.openFail = {}
     /\ "sensor" \notin hw.ents \/ ~hw.sensorTag)
    => (matchResult = "false" /\ ~registered)

\* C23: a configure that fails at the sensor, receiver or ISP core call leaves
\* enabledStreams_ as it was; one that fails at a resizer or capture call
\* leaves it empty; one that returns 0 leaves the Streams of the validated
\* entries, in order and each once. A start on an empty enabledStreams_
\* returns 0 and makes no call on a capture device.
C23_EnabledListAfterConfigure ==
    [][/\ op'.name = "configure" =>
             IF op'.ret # 0
             THEN IF Len(calls') <= FixedCalls
                  THEN enabledStreams_' = enabledStreams_
                  ELSE enabledStreams_' = <<>>
             ELSE /\ Len(enabledStreams_') = Len(config_)
                  /\ \A i \in 1 .. Len(config_) :
                        config_[i].stream = {enabledStreams_'[i]}
                  /\ \A i, j \in 1 .. Len(enabledStreams_') :
                        enabledStreams_'[i] = enabledStreams_'[j] => i = j
       /\ (op'.name = "start" /\ enabledStreams_ = <<>>) =>
             /\ op'.ret = 0
             /\ op'.issued = <<>>
             /\ capDev' = capDev]_vars

\* C23 witness: after a successful configure, a configure failed at the
\* resizer output, and the start that followed returned 0 with nothing
\* imported and nothing streaming
C23_Witness ==
    /\ op.name = "start" /\ op.ret = 0 /\ op.issued = <<>>
    /\ camState = "Running"
    /\ enabledStreams_ = <<>>
    /\ streamBufferCount[0] = DefaultBufferCount
    /\ Len(calls) = FixedCalls + 2
    /\ AllIdle

=============================================================================
